---- MODULE Spec2Model ----
(***************************************************************************)
(* InferX-ML: the model registry routes of the Flask backend              *)
(* (backend/app/routes/models.py) and the Streamlit prediction app         *)
(* (streamlit_app/app.py) that downloads a model package from them.        *)
(*                                                                         *)
(* SpecApi: the registry's HTTP handlers over the experiments table and    *)
(*          the object store, one action per handler.                      *)
(* SpecUi : render passes of main() of the Streamlit app, each pass one    *)
(*          action that calls the registry's internal endpoints.           *)
(* SpecForm: generate_form_from_schema called on its own.                  *)
(* SpecScript: the filter applied to a bundled script before it is run.    *)
(* SpecSchema: the schema and download routes over packages of any content.*)
(* SpecPredict: the prediction routes (backend/app/routes/predictions.py). *)
(***************************************************************************)
EXTENDS Integers, Sequences, FiniteSets, TLC

VARIABLES
    experiments,   \* the experiments table: id -> [user_id, status, path]
    store,         \* bucket 'models' of the object store: key -> blob
    resp,          \* the last HTTP request served and its response
    query_model,   \* the 'model' query parameter of the Streamlit session URL
    sys_path,      \* the interpreter's import search path (entries added by main)
    disk,          \* the temporary directories existing on disk
    next_dir,      \* number of temporary directories created so far
    pass,          \* what the last render pass of main() did
    call           \* a function of the app called on its own: input and result

vars == <<experiments, store, resp, query_model, sys_path, disk, next_dir, pass, call>>

---------------------------------------------------------------------------
(* Bounds of the model *)

MaxUser == 2
MaxId == 2
MaxPasses == 2
MaxNumeral == 9

Users == 1..MaxUser
Ids == 1..MaxId

---------------------------------------------------------------------------
(* Python values *)

None == "<None>"

\* str.startswith
StartsWith(s, prefix) ==
    /\ Len(s) >= Len(prefix)
    /\ SubSeq(s, 1, Len(prefix)) = prefix

\* s[n:]
SliceFrom(s, n) == SubSeq(s, n + 1, Len(s))

\* Python truthiness of an optional string
Truthy(s) == s # None /\ s # ""

---------------------------------------------------------------------------
(* Model packages: the archive stored in the object store.                 *)
(* A package holds any of model.pkl, preprocessor.pkl, ui_schema.json,     *)
(* model_info.json and streamlit_app.py.                                   *)

\* A JSON / form value, tagged with its Python type.
Absent == [t |-> "absent", n |-> 0, s |-> ""]
NoneV == [t |-> "none", n |-> 0, s |-> ""]
Num(n) == [t |-> "num", n |-> n, s |-> ""]
Str(s) == [t |-> "str", n |-> 0, s |-> s]
Bool(b) == [t |-> "bool", n |-> IF b THEN 1 ELSE 0, s |-> ""]

\* A field descriptor of ui_schema.json.
Field(name, input_type, min, max, default, options) ==
    [name |-> name, input_type |-> input_type, min |-> min, max |-> max,
     default |-> default, options |-> options]

\* The ui_schema.json documents of the model: keys is the set of top-level
\* keys of the JSON object, fields the value of 'fields'.
SchemaJson(keys, fields) == [keys |-> keys, fields |-> fields]

FieldAge == Field("age", "number", Num(0), Num(120), Num(5), <<>>)
FieldCity == Field("city", "dropdown", Absent, Absent, Absent, <<>>)
FieldNote == Field("note", "text", Absent, Absent, Str("unseen_category"), <<>>)
FieldLevel == Field("level", "slider", Str("low"), Num(10), Num(5), <<>>)

SchemaJsons ==
    { SchemaJson({}, <<>>),
      SchemaJson({"fields"}, <<FieldAge>>),
      SchemaJson({"fields"}, <<FieldNote>>),
      SchemaJson({"fields"}, <<FieldAge, FieldCity>>),
      SchemaJson({"fields"}, <<FieldLevel>>) }

\* One file of the package: absent, present but unloadable, or loadable.
FileStates == {"absent", "corrupt", "ok"}

ModelFiles ==
    { [file |-> f, predict |-> "ok", proba |-> "ok"] : f \in {"absent", "corrupt"} }
    \cup [file : {"ok"}, predict : {"ok", "numeric_only", "raises"},
          proba : {"absent", "ok", "raises"}]

PrepFiles ==
    { [file |-> f, transform |-> "ok"] : f \in {"absent", "corrupt"} }
    \cup [file : {"ok"},
          transform : {"ok", "numeric_only", "rejects_value", "rejects_other"}]

SchemaFiles ==
    { [file |-> f, json |-> SchemaJson({}, <<>>)] : f \in {"absent", "corrupt"} }
    \cup [file : {"ok"}, json : SchemaJsons]

InfoFiles == {"absent", "corrupt", "ok", "bad_score"}

AppFiles == {"none", "ok", "unreadable", "syntax_error", "raises"}

ZipStates == {"ok", "badzip", "unpackfail", "unpackfail_nomsg"}

AllPackages ==
    [zip : ZipStates, app : AppFiles, model : ModelFiles, prep : PrepFiles,
     schema : SchemaFiles, info : InfoFiles]

\* The base package and the packages that differ from it in at most
\* MaxDeviations of their six parts.
BasePackage ==
    [zip |-> "ok", app |-> "none",
     model |-> [file |-> "ok", predict |-> "ok", proba |-> "ok"],
     prep |-> [file |-> "ok", transform |-> "ok"],
     schema |-> [file |-> "ok", json |-> SchemaJson({"fields"}, <<FieldAge, FieldCity>>)],
     info |-> "ok"]

PackageParts == {"zip", "app", "model", "prep", "schema", "info"}

Deviations(p) == Cardinality({k \in PackageParts : p[k] # BasePackage[k]})

MaxDeviations == 2

Packages == {p \in AllPackages : Deviations(p) <= MaxDeviations}

\* What download_bytes finds under a key: nothing (None), empty bytes, an
\* error of the object store, or the bytes of a package.
Blob(kind, pkg) == [kind |-> kind, pkg |-> pkg]
NoBlob == Blob("none", BasePackage)

---------------------------------------------------------------------------
(* The registry: backend/app/routes/models.py *)

\* INTERNAL_API_SECRET, by its default
InternalSecret == "inferx-internal-2024"

\* MinioService.download_bytes(bucket, key)
download_bytes(bucket, key) ==
    IF bucket = "models" /\ key \in DOMAIN store THEN store[key] ELSE NoBlob

\* Experiment.query.filter_by(id=model_id, user_id=user_id).first()
filter_by_id_user(model_id, user_id) ==
    IF model_id \in DOMAIN experiments /\ experiments[model_id].user_id = user_id
    THEN {model_id} ELSE {}

\* Experiment.query.filter_by(id=model_id).first()
filter_by_id(model_id) ==
    IF model_id \in DOMAIN experiments THEN {model_id} ELSE {}

\* experiment.to_dict(), as far as the table is modelled
to_dict(id) ==
    [id |-> id, user_id |-> experiments[id].user_id,
     status |-> experiments[id].status, path |-> experiments[id].path]

\* A response: status code, JSON body or payload, mimetype, and the key the
\* handler looked up in the object store (None when it looked up nothing).
Response(status, mimetype, body, key) ==
    [status |-> status, mimetype |-> mimetype, body |-> body, key |-> key]

JsonError(status, msg) == Response(status, "application/json", [error |-> msg], None)

\* GET /api/models (jwt_required)
list_models(user_id) ==
    LET found == {e \in DOMAIN experiments :
                     /\ experiments[e].user_id = user_id
                     /\ experiments[e].status = "completed"}
    IN Response(200, "application/json",
                [models |-> {to_dict(e) : e \in found}, total |-> Cardinality(found)],
                None)

\* GET /api/models/<model_id> (jwt_required)
get_model(user_id, model_id) ==
    LET found == filter_by_id_user(model_id, user_id)
    IN IF found = {} THEN JsonError(404, "Model not found")
       ELSE Response(200, "application/json", [model |-> to_dict(model_id)], None)

\* The key download_model looks up for a stored package path
corrected_path_download(model_package_path) ==
    IF StartsWith(model_package_path, "models/")
    THEN SliceFrom(model_package_path, 7)
    ELSE model_package_path

\* GET /api/models/<model_id>/download (jwt_required)
download_model(user_id, model_id) ==
    LET found == filter_by_id_user(model_id, user_id)
    IN IF found = {} THEN JsonError(404, "Model not found")
       ELSE IF experiments[model_id].status # "completed"
       THEN JsonError(400, "Model training not completed")
       ELSE IF ~Truthy(experiments[model_id].path)
       THEN JsonError(404, "Model package not available. Please train a new model.")
       ELSE LET corrected_path == corrected_path_download(experiments[model_id].path)
                zip_content == download_bytes("models", corrected_path)
            IN IF zip_content.kind = "raise"
               THEN [JsonError(500, "Download failed") EXCEPT !.key = corrected_path]
               ELSE IF zip_content.kind \in {"none", "empty"}
               THEN [JsonError(500, "Failed to download model package")
                        EXCEPT !.key = corrected_path]
               ELSE Response(200, "application/zip", zip_content, corrected_path)

\* The prefix stripped as often as it occurs
RECURSIVE corrected_path_repeated(_)
corrected_path_repeated(model_package_path) ==
    IF StartsWith(model_package_path, "models/")
    THEN corrected_path_repeated(SliceFrom(model_package_path, 7))
    ELSE model_package_path

\* The key get_model_schema looks up for a stored package path
corrected_path_schema(model_package_path) ==
    IF StartsWith(model_package_path, "models/")
    THEN SliceFrom(model_package_path, 7)
    ELSE model_package_path

\* What get_model_schema reads out of the downloaded bytes: the content of
\* ui_schema.json, or the default when the archive cannot be opened, holds no
\* ui_schema.json, or holds one that is not JSON.
EmptyUiSchema == SchemaJson({"fields"}, <<>>)

schema_of_zip(zip_content) ==
    IF zip_content.kind \in {"none", "empty", "raise"} THEN EmptyUiSchema
    ELSE IF zip_content.pkg.zip = "badzip" THEN EmptyUiSchema
    ELSE IF zip_content.pkg.schema.file # "ok" THEN EmptyUiSchema
    ELSE zip_content.pkg.schema.json

\* get_model_schema with the status check of download_model
get_model_schema_completed_only(user_id, model_id) ==
    LET found == filter_by_id_user(model_id, user_id)
    IN IF found = {} THEN JsonError(404, "Model not found")
       ELSE IF experiments[model_id].status # "completed"
       THEN JsonError(400, "Model training not completed")
       ELSE IF ~Truthy(experiments[model_id].path)
       THEN Response(200, "application/json",
                     [model_id |-> model_id, ui_schema |-> EmptyUiSchema], None)
       ELSE LET corrected_path == corrected_path_schema(experiments[model_id].path)
                zip_content == download_bytes("models", corrected_path)
            IN Response(200, "application/json",
                        [model_id |-> model_id, ui_schema |-> schema_of_zip(zip_content)],
                        corrected_path)

\* GET /api/models/<model_id>/schema (jwt_required)
get_model_schema(user_id, model_id) ==
    LET found == filter_by_id_user(model_id, user_id)
    IN IF found = {} THEN JsonError(404, "Model not found")
       ELSE IF ~Truthy(experiments[model_id].path)
       THEN Response(200, "application/json",
                     [model_id |-> model_id, ui_schema |-> EmptyUiSchema], None)
       ELSE LET corrected_path == corrected_path_schema(experiments[model_id].path)
                zip_content == download_bytes("models", corrected_path)
            IN Response(200, "application/json",
                        [model_id |-> model_id, ui_schema |-> schema_of_zip(zip_content)],
                        corrected_path)

\* delete_model looking the experiment up by id alone
delete_model_unscoped(user_id, model_id) ==
    LET found == filter_by_id(model_id)
    IN IF found = {}
       THEN [response |-> JsonError(404, "Model not found"), table |-> experiments]
       ELSE [response |-> Response(200, "application/json",
                                   [message |-> "Model deleted successfully"], None),
             table |-> [e \in DOMAIN experiments \ {model_id} |-> experiments[e]]]

\* DELETE /api/models/<model_id> (jwt_required): the response and the table
\* after the request
delete_model(user_id, model_id) ==
    LET found == filter_by_id_user(model_id, user_id)
    IN IF found = {}
       THEN [response |-> JsonError(404, "Model not found"), table |-> experiments]
       ELSE [response |-> Response(200, "application/json",
                                   [message |-> "Model deleted successfully"], None),
             table |-> [e \in DOMAIN experiments \ {model_id} |-> experiments[e]]]

\* The access check of internal_download_model
is_internal_download(remote_addr, provided_secret) ==
    \/ StartsWith(remote_addr, "172.")
    \/ remote_addr = "127.0.0.1"
    \/ provided_secret = InternalSecret

\* The key internal_download_model looks up for a stored package path
corrected_path_internal(model_package_path) ==
    IF StartsWith(model_package_path, "models/")
    THEN SliceFrom(model_package_path, 7)
    ELSE model_package_path

\* internal_download_model looking the experiment up before the access check
internal_download_lookup_first(model_id, remote_addr, provided_secret) ==
    IF filter_by_id(model_id) = {} THEN JsonError(404, "Model not found")
    ELSE IF ~is_internal_download(remote_addr, provided_secret)
    THEN JsonError(403, "Unauthorized")
    ELSE IF experiments[model_id].status # "completed"
    THEN JsonError(400, "Model training not completed")
    ELSE IF ~Truthy(experiments[model_id].path)
    THEN JsonError(404, "Model package not available")
    ELSE LET corrected_path == corrected_path_internal(experiments[model_id].path)
             zip_content == download_bytes("models", corrected_path)
         IN IF zip_content.kind \in {"none", "empty", "raise"}
            THEN [JsonError(500, "Failed to download model package")
                     EXCEPT !.key = corrected_path]
            ELSE Response(200, "application/zip", zip_content, corrected_path)

\* GET /api/models/internal/<model_id>/download
internal_download_model(model_id, remote_addr, provided_secret) ==
    IF ~is_internal_download(remote_addr, provided_secret)
    THEN JsonError(403, "Unauthorized")
    ELSE IF filter_by_id(model_id) = {} THEN JsonError(404, "Model not found")
    ELSE IF experiments[model_id].status # "completed"
    THEN JsonError(400, "Model training not completed")
    ELSE IF ~Truthy(experiments[model_id].path)
    THEN JsonError(404, "Model package not available")
    ELSE LET corrected_path == corrected_path_internal(experiments[model_id].path)
             zip_content == download_bytes("models", corrected_path)
         IN IF zip_content.kind = "raise"
            THEN [JsonError(500, "Download failed") EXCEPT !.key = corrected_path]
            ELSE IF zip_content.kind \in {"none", "empty"}
            THEN [JsonError(500, "Failed to download model package")
                     EXCEPT !.key = corrected_path]
            ELSE Response(200, "application/zip", zip_content, corrected_path)

\* The access check with the loopback address tested as a prefix
is_internal_list_loopback_prefix(remote_addr, provided_secret) ==
    \/ StartsWith(remote_addr, "172.")
    \/ StartsWith(remote_addr, "127.0.0.1")
    \/ provided_secret = InternalSecret

\* The access check of internal_list_models
is_internal_list(remote_addr, provided_secret) ==
    \/ StartsWith(remote_addr, "172.")
    \/ remote_addr = "127.0.0.1"
    \/ provided_secret = InternalSecret

\* GET /api/models/internal/list
internal_list_models(remote_addr, provided_secret) ==
    IF ~is_internal_list(remote_addr, provided_secret)
    THEN JsonError(403, "Unauthorized")
    ELSE LET found == {e \in DOMAIN experiments : experiments[e].status = "completed"}
         IN Response(200, "application/json",
                     [models |-> {[id |-> e, has_package |-> Truthy(experiments[e].path)] :
                                     e \in found}],
                     None)

---------------------------------------------------------------------------
(* Requests to the registry, one action per handler. Requests are served  *)
(* one at a time: resp is the response on its way to the client.           *)

RemoteAddrs == {"172.18.0.3", "127.0.0.1", "10.0.0.7", "127.0.0.10", "1172.16.0.1"}
ProvidedSecrets == {"", InternalSecret, "wrong"}

NoRequest ==
    [ep |-> "none", user |-> 0, id |-> 0, addr |-> "", secret |-> "",
     status |-> 0, mimetype |-> "", body |-> [error |-> ""], key |-> None]

Served(ep, user, id, addr, secret, r) ==
    [ep |-> ep, user |-> user, id |-> id, addr |-> addr, secret |-> secret,
     status |-> r.status, mimetype |-> r.mimetype, body |-> r.body, key |-> r.key]

UiUnchanged == UNCHANGED <<query_model, sys_path, disk, next_dir, pass, call>>

ListModels ==
    \E u \in Users :
        /\ resp = NoRequest
        /\ \E r \in {list_models(u)} :
              resp' = Served("list_models", u, 0, "", "", r)
        /\ UNCHANGED <<experiments, store>>
        /\ UiUnchanged

GetModel ==
    \E u \in Users, id \in Ids :
        /\ resp = NoRequest
        /\ \E r \in {get_model(u, id)} :
              resp' = Served("get_model", u, id, "", "", r)
        /\ UNCHANGED <<experiments, store>>
        /\ UiUnchanged

DownloadModel ==
    \E u \in Users, id \in Ids :
        /\ resp = NoRequest
        /\ \E r \in {download_model(u, id)} :
              resp' = Served("download_model", u, id, "", "", r)
        /\ UNCHANGED <<experiments, store>>
        /\ UiUnchanged

GetModelSchema ==
    \E u \in Users, id \in Ids :
        /\ resp = NoRequest
        /\ \E r \in {get_model_schema(u, id)} :
              resp' = Served("get_model_schema", u, id, "", "", r)
        /\ UNCHANGED <<experiments, store>>
        /\ UiUnchanged

DeleteModel ==
    \E u \in Users, id \in Ids :
        /\ resp = NoRequest
        /\ \E r \in {delete_model(u, id)} :
              /\ resp' = Served("delete_model", u, id, "", "", r.response)
              /\ experiments' = r.table
        /\ UNCHANGED store
        /\ UiUnchanged

InternalDownloadModel ==
    \E id \in Ids, a \in RemoteAddrs, s \in ProvidedSecrets :
        /\ resp = NoRequest
        /\ \E r \in {internal_download_model(id, a, s)} :
              resp' = Served("internal_download_model", 0, id, a, s, r)
        /\ UNCHANGED <<experiments, store>>
        /\ UiUnchanged

InternalListModels ==
    \E a \in RemoteAddrs, s \in ProvidedSecrets :
        /\ resp = NoRequest
        /\ \E r \in {internal_list_models(a, s)} :
              resp' = Served("internal_list_models", 0, 0, a, s, r)
        /\ UNCHANGED <<experiments, store>>
        /\ UiUnchanged

\* The client receives the response in flight; the next request can be served.
Deliver ==
    /\ resp # NoRequest
    /\ resp' = NoRequest
    /\ UNCHANGED <<experiments, store>>
    /\ UiUnchanged

---------------------------------------------------------------------------
(* The registry's specification *)

\* The object store of the registry's specification: a package under
\* PackageKey, empty bytes under EmptyKey, an error of the store for BrokenKey,
\* and nothing under any other key.
PackageKey == "abc/model.zip"
EmptyKey == "empty.zip"
BrokenKey == "broken.zip"

ApiStore ==
    [k \in {PackageKey, EmptyKey, BrokenKey} |->
        CASE k = PackageKey -> Blob("bytes", BasePackage)
          [] k = EmptyKey -> Blob("empty", BasePackage)
          [] OTHER -> Blob("raise", BasePackage)]

\* Stored package paths: none, empty, with the legacy prefix once or twice,
\* without it.
Paths ==
    {None, "", "models/abc/model.zip", "abc/model.zip", "models/models/abc/model.zip",
     EmptyKey, BrokenKey}

\* The rows of the table: a completed experiment with any package path, a
\* running experiment without one, and a failed experiment that kept the
\* path of an earlier package.
Rows ==
    [user_id : Users, status : {"completed"}, path : Paths]
    \cup [user_id : Users, status : {"running"}, path : {None}]
    \cup [user_id : Users, status : {"failed"}, path : {"models/abc/model.zip"}]

Tables == UNION {[D -> Rows] : D \in SUBSET Ids}

NoPass == [n |-> 0, exit |-> "idle", events |-> <<>>]

\* No function called on its own
NoCall == [fn |-> "none", done |-> FALSE]

InitApi ==
    /\ experiments \in Tables
    /\ store = ApiStore
    /\ resp = NoRequest
    /\ query_model = None
    /\ sys_path = <<>>
    /\ disk = {}
    /\ next_dir = 0
    /\ pass = NoPass
    /\ call = NoCall

NextApi ==
    \/ ListModels
    \/ GetModel
    \/ DownloadModel
    \/ GetModelSchema
    \/ DeleteModel
    \/ InternalDownloadModel
    \/ InternalListModels
    \/ Deliver

SpecApi == InitApi /\ [][NextApi]_vars

---------------------------------------------------------------------------
(* The Streamlit app: streamlit_app/app.py *)

\* What a render pass logs: Streamlit calls, registry requests, file system
\* operations and the calls on the preprocessor and the predictor, in order.
Ev(op, arg) == [op |-> op, arg |-> arg, via |-> "", row |-> <<>>]
CallEv(fn, outcome, input) ==
    [op |-> fn, arg |-> outcome, via |-> input.via, row |-> input.row]

\* A button that returns True: it was clicked to trigger the pass
Clicked(label) == <<Ev("clicked", label)>>

\* How a pass reaches the registry: the network, the address the registry
\* sees, and the INTERNAL_API_SECRET of the Streamlit process.
Channels ==
    { [net |-> "ok", addr |-> "172.18.0.3", secret |-> InternalSecret],
      [net |-> "ok", addr |-> "10.0.0.7", secret |-> "wrong"],
      [net |-> "down", addr |-> "172.18.0.3", secret |-> InternalSecret] }

\* The button clicked to trigger the pass, if any.
Buttons == {"none", "predict", "choose_different", "back", "load"}

\* What the user and the environment contribute to one pass: the channel, the
\* clicked button, and whether the user typed text into the free-text inputs
\* of the form before clicking the prediction button.
Interactions ==
    {u \in [chan : Channels, clicked : Buttons, typed : BOOLEAN] :
        u.typed => u.clicked = "predict"}

\* requests.get(f"{API_URL}/models/internal/{model_id}/download", headers=...):
\* the route <int:model_id> matches decimal ids only
get_internal_download(model_id, chan) ==
    IF \E n \in 0..MaxNumeral : ToString(n) = model_id
    THEN internal_download_model(CHOOSE n \in 0..MaxNumeral : ToString(n) = model_id,
                                 chan.addr, chan.secret)
    ELSE JsonError(404, "Not Found")

\* load_model_package(model_id): (temp_dir_obj, temp_dir_path, error), the
\* directory it created (0: none), what it logged, and the files extractall
\* left in the directory. d is the name the next TemporaryDirectory gets.
Loaded(temp_dir_obj, error, created, events, pkg) ==
    [temp_dir_obj |-> temp_dir_obj, temp_dir |-> temp_dir_obj, error |-> error,
     created |-> created, events |-> events, pkg |-> pkg]

\* A loader that asks the registry a second time when the first request
\* is refused or fails
load_model_package_retry(model_id, chan, d) ==
    LET request == <<Ev("requests.get", "download")>>
        mkdir == <<Ev("TemporaryDirectory", ToString(d))>>
        extract == <<Ev("extractall", ToString(d))>>
        unpack(response) ==
            IF response.status # 200
            THEN Loaded(0, "Failed to load model: " \o ToString(response.status), 0,
                        request \o request, BasePackage)
            ELSE IF response.body.pkg.zip # "ok"
            THEN Loaded(0, "File is not a zip file", d, request \o mkdir, BasePackage)
            ELSE Loaded(d, None, d, request \o mkdir \o extract, response.body.pkg)
    IN IF chan.net = "down"
       THEN Loaded(0, "Connection refused", 0, request \o request, BasePackage)
       ELSE unpack(get_internal_download(model_id, chan))

load_model_package(model_id, chan, d) ==
    LET request == <<Ev("requests.get", "download")>>
        mkdir == <<Ev("TemporaryDirectory", ToString(d))>>
        extract == <<Ev("extractall", ToString(d))>>
        unpack(response) ==
            IF response.status # 200
            THEN Loaded(0, "Failed to load model: " \o ToString(response.status), 0,
                        request, BasePackage)
            ELSE CASE response.body.pkg.zip = "badzip" ->
                         Loaded(0, "File is not a zip file", d, request \o mkdir,
                                BasePackage)
                   [] response.body.pkg.zip = "unpackfail" ->
                         Loaded(0, "Bad CRC-32 for file", d,
                                request \o mkdir \o extract, BasePackage)
                   [] response.body.pkg.zip = "unpackfail_nomsg" ->
                         Loaded(0, "", d, request \o mkdir \o extract, BasePackage)
                   [] OTHER ->
                         Loaded(d, None, d, request \o mkdir \o extract,
                                response.body.pkg)
    IN IF chan.net = "down"
       THEN Loaded(0, "Connection refused", 0, request, BasePackage)
       ELSE unpack(get_internal_download(model_id, chan))

\* load_legacy_components(temp_dir): the four components, or None for all of
\* them when loading any present file raises. A component that is None has
\* file = "absent"; model_info is "{}" when model_info.json is absent.
NoModel == [file |-> "absent", predict |-> "ok", proba |-> "ok"]
NoPrep == [file |-> "absent", transform |-> "ok"]
NoSchema == [file |-> "absent", json |-> SchemaJson({}, <<>>)]

\* A loader that supplies the schema of the base package when
\* ui_schema.json is absent
load_legacy_components_default_schema(pkg) ==
    IF \/ pkg.model.file = "corrupt"
       \/ pkg.prep.file = "corrupt"
       \/ pkg.schema.file = "corrupt"
       \/ pkg.info = "corrupt"
    THEN [model |-> NoModel, preprocessor |-> NoPrep, schema |-> NoSchema,
          model_info |-> None]
    ELSE [model |-> pkg.model, preprocessor |-> pkg.prep,
          schema |-> IF pkg.schema.file = "absent"
                     THEN BasePackage.schema ELSE pkg.schema,
          model_info |-> IF pkg.info = "absent" THEN "{}" ELSE pkg.info]

\* A loader that guards each file on its own: a file that fails to load
\* gives None for its component and leaves the others as loaded
load_legacy_components_per_file(pkg) ==
    [model |-> IF pkg.model.file = "corrupt" THEN NoModel ELSE pkg.model,
     preprocessor |-> IF pkg.prep.file = "corrupt" THEN NoPrep ELSE pkg.prep,
     schema |-> IF pkg.schema.file = "corrupt" THEN NoSchema ELSE pkg.schema,
     model_info |-> IF pkg.info \in {"absent", "corrupt"} THEN "{}" ELSE pkg.info]

load_legacy_components(pkg) ==
    IF \/ pkg.model.file = "corrupt"
       \/ pkg.prep.file = "corrupt"
       \/ pkg.schema.file = "corrupt"
       \/ pkg.info = "corrupt"
    THEN [model |-> NoModel, preprocessor |-> NoPrep, schema |-> NoSchema,
          model_info |-> None]
    ELSE [model |-> pkg.model, preprocessor |-> pkg.prep, schema |-> pkg.schema,
          model_info |-> IF pkg.info = "absent" THEN "{}" ELSE pkg.info]

---------------------------------------------------------------------------
(* The Form Renderer: generate_form_from_schema *)

\* The text the user types into a free-text input
TypedText == "unseen_category"

\* Strings that float() and int() accept, with their value
IsNumeric(str) == \E n \in 0..MaxNumeral : ToString(n) = str
NumericValue(str) == CHOOSE n \in 0..MaxNumeral : ToString(n) = str

\* float(v) / int(v) succeed
Coercible(v) ==
    \/ v.t \in {"num", "bool"}
    \/ v.t = "str" /\ IsNumeric(v.s)

Coerced(v) == IF v.t = "str" THEN NumericValue(v.s) ELSE v.n

Max2(a, b) == IF a >= b THEN a ELSE b
Min2(a, b) == IF a <= b THEN a ELSE b

\* str(v)
PyStr(v) ==
    CASE v.t = "str" -> v.s
      [] v.t = "num" -> ToString(v.n)
      [] v.t = "bool" -> IF v.n = 1 THEN "True" ELSE "False"
      [] v.t = "none" -> "None"
      [] OTHER -> ""

\* field.get(key, default)
GetOr(v, default) == IF v = Absent THEN default ELSE v

\* A widget: the Streamlit call, whether it raised, and the value it returns.
Widget(op, raised, value) == [op |-> op, raised |-> raised, value |-> value]

\* The arguments of a number field without the clamp of the initial value
number_args_unclamped(field) ==
    LET min_raw == GetOr(field.min, Num(0))
        max_raw == GetOr(field.max, Num(1000))
        default_raw == GetOr(field.default, min_raw)
        ok == \A v \in {min_raw, max_raw, default_raw} : v.t = "none" \/ Coercible(v)
        min_val == IF min_raw.t = "none" THEN 0 ELSE Coerced(min_raw)
        max_val == IF max_raw.t = "none" THEN 1000 ELSE Coerced(max_raw)
        default_val == IF default_raw.t = "none" THEN min_val ELSE Coerced(default_raw)
    IN IF ok
       THEN [min |-> min_val, max |-> max_val, value |-> default_val]
       ELSE [min |-> 0, max |-> 1000, value |-> 0]

\* The arguments of a number field with only the attributes that fail to
\* coerce replaced by their fallback
number_args_keep_coerced(field) ==
    LET min_raw == GetOr(field.min, Num(0))
        max_raw == GetOr(field.max, Num(1000))
        default_raw == GetOr(field.default, min_raw)
        usable(v) == v.t # "none" /\ Coercible(v)
        min_val == IF usable(min_raw) THEN Coerced(min_raw) ELSE 0
        max_val == IF usable(max_raw) THEN Coerced(max_raw) ELSE 1000
        default_val == IF usable(default_raw) THEN Coerced(default_raw) ELSE min_val
    IN [min |-> min_val, max |-> max_val,
        value |-> Max2(min_val, Min2(max_val, default_val))]

\* input_type == 'number': min, max and initial value handed to
\* st.number_input, which rejects a value outside [min, max].
number_args(field) ==
    LET min_raw == GetOr(field.min, Num(0))
        max_raw == GetOr(field.max, Num(1000))
        default_raw == GetOr(field.default, min_raw)
        ok == \A v \in {min_raw, max_raw, default_raw} : v.t = "none" \/ Coercible(v)
        min_val == IF min_raw.t = "none" THEN 0 ELSE Coerced(min_raw)
        max_val == IF max_raw.t = "none" THEN 1000 ELSE Coerced(max_raw)
        default_val == IF default_raw.t = "none" THEN min_val ELSE Coerced(default_raw)
    IN IF ok
       THEN [min |-> min_val, max |-> max_val,
             value |-> Max2(min_val, Min2(max_val, default_val))]
       ELSE [min |-> 0, max |-> 1000, value |-> 0]

number_widget(field) ==
    LET number_input(a) ==
            Widget("st.number_input", a.value < a.min \/ a.value > a.max, Num(a.value))
    IN number_input(number_args(field))

\* A dropdown that stays a select box over empty options, which returns None
dropdown_widget_always_select(field, typed) ==
    IF Len(field.options) > 0
    THEN Widget("st.selectbox", FALSE, field.options[1])
    ELSE Widget("st.selectbox", FALSE, NoneV)

\* input_type == 'dropdown'
dropdown_widget(field, typed) ==
    IF Len(field.options) > 0
    THEN Widget("st.selectbox", FALSE, field.options[1])
    ELSE Widget("st.text_input", FALSE, Str(IF typed THEN TypedText ELSE ""))

\* A slider that substitutes the range 0..100 and the value 50 when an
\* attribute fails to coerce
slider_widget_fallback(field) ==
    LET min_raw == GetOr(field.min, Num(0))
        max_raw == GetOr(field.max, Num(100))
        default_raw == GetOr(field.default, Num(50))
    IN IF \A v \in {min_raw, max_raw, default_raw} : Coercible(v)
       THEN Widget("st.slider",
                   \/ Coerced(min_raw) > Coerced(max_raw)
                   \/ Coerced(default_raw) < Coerced(min_raw)
                   \/ Coerced(default_raw) > Coerced(max_raw),
                   Num(Coerced(default_raw)))
       ELSE Widget("st.slider", FALSE, Num(50))

\* input_type == 'slider': int() of min, max and default, unguarded
slider_widget(field) ==
    LET min_raw == GetOr(field.min, Num(0))
        max_raw == GetOr(field.max, Num(100))
        default_raw == GetOr(field.default, Num(50))
    IN IF \A v \in {min_raw, max_raw, default_raw} : Coercible(v)
       THEN Widget("st.slider",
                   \/ Coerced(min_raw) > Coerced(max_raw)
                   \/ Coerced(default_raw) < Coerced(min_raw)
                   \/ Coerced(default_raw) > Coerced(max_raw),
                   Num(Coerced(default_raw)))
       ELSE Widget("int", TRUE, NoneV)

\* input_type == 'checkbox'
checkbox_widget(field) ==
    LET default == GetOr(field.default, Bool(FALSE))
    IN Widget("st.checkbox", FALSE,
              Bool(\/ default.t \in {"num", "bool"} /\ default.n # 0
                   \/ default.t = "str" /\ default.s # ""))

\* any other input_type
text_widget(field, typed) ==
    Widget("st.text_input", FALSE,
           Str(IF typed THEN TypedText ELSE PyStr(GetOr(field.default, Str("")))))

field_widget(field, typed) ==
    CASE field.input_type = "number" -> number_widget(field)
      [] field.input_type = "dropdown" -> dropdown_widget(field, typed)
      [] field.input_type = "slider" -> slider_widget(field)
      [] field.input_type = "checkbox" -> checkbox_widget(field)
      [] OTHER -> text_widget(field, typed)

\* A loop that creates no widget for a field whose input_type it does not
\* recognise
RECURSIVE form_loop_skip_unknown(_, _, _, _, _)
form_loop_skip_unknown(fields, i, typed, values, events) ==
    IF i > Len(fields)
    THEN [raised |-> FALSE, values |-> values, events |-> events]
    ELSE LET col == IF (i - 1) % 2 = 0 THEN "col1" ELSE "col2"
             place(w) ==
                 IF w.raised
                 THEN [raised |-> TRUE, values |-> values,
                       events |-> Append(events, Ev(w.op, col))]
                 ELSE form_loop_skip_unknown(fields, i + 1, typed,
                                Append(values, [name |-> fields[i].name, value |-> w.value]),
                                Append(events, Ev(w.op, col)))
         IN IF fields[i].input_type \in {"number", "dropdown", "slider", "checkbox", "text"}
            THEN place(field_widget(fields[i], typed))
            ELSE form_loop_skip_unknown(fields, i + 1, typed, values, events)

\* The loop over the fields: the values collected, the widgets created, and
\* whether a widget raised (the loop ends there).
RECURSIVE form_loop(_, _, _, _, _)
form_loop(fields, i, typed, values, events) ==
    IF i > Len(fields)
    THEN [raised |-> FALSE, values |-> values, events |-> events]
    ELSE LET col == IF (i - 1) % 2 = 0 THEN "col1" ELSE "col2"
             place(w) ==
                 IF w.raised
                 THEN [raised |-> TRUE, values |-> values,
                       events |-> Append(events, Ev(w.op, col))]
                 ELSE form_loop(fields, i + 1, typed,
                                Append(values, [name |-> fields[i].name, value |-> w.value]),
                                Append(events, Ev(w.op, col)))
         IN place(field_widget(fields[i], typed))

\* generate_form_from_schema(schema)
generate_form_from_schema(schema, typed) ==
    IF schema.keys = {} \/ "fields" \notin schema.keys
    THEN [raised |-> FALSE, values |-> <<>>, events |-> <<>>]
    ELSE form_loop(schema.fields, 1, typed, <<>>, <<Ev("st.columns", "2")>>)

---------------------------------------------------------------------------
(* The Prediction Executor: the body of the prediction button in run_legacy_ui *)

HasText(row) == \E i \in 1..Len(row) : row[i].value.t = "str"

\* An encoding that leaves text-valued columns as they are
encode_categorical_identity(row) == row

\* encode_categorical(df): every text-valued column becomes its category code
encode_categorical(row) ==
    [i \in 1..Len(row) |->
        IF row[i].value.t = "str"
        THEN [name |-> row[i].name, value |-> Num(0)]
        ELSE row[i]]

\* What is handed to the preprocessor or the predictor: the data frame, the
\* bare values of a data frame, or the output of the preprocessor.
Input(via, row) == [via |-> via, row |-> row]

\* preprocessor.transform(input): "ok", "value_error" (ValueError or
\* TypeError) or "error" (any other exception)
transform(preprocessor, input) ==
    CASE preprocessor.transform = "ok" -> "ok"
      [] preprocessor.transform = "numeric_only" ->
            IF HasText(input.row) THEN "value_error" ELSE "ok"
      [] preprocessor.transform = "rejects_value" -> "value_error"
      [] OTHER -> "error"

\* model.predict(input): "ok" or "error"
predict(model, input) ==
    CASE model.predict = "ok" -> "ok"
      [] model.predict = "numeric_only" ->
            IF input.via # "transformed" /\ HasText(input.row) THEN "error" ELSE "ok"
      [] OTHER -> "error"

\* The outcome of the preprocessing step
Prepared(failed, input, events) == [failed |-> failed, input |-> input, events |-> events]

\* A preprocessing step whose fallback catches every exception of the first
\* transform
preprocess_catch_all(preprocessor, row) ==
    LET input_df == Input("df", row)
        input_encoded == Input("df", encode_categorical(row))
        first == transform(preprocessor, input_df)
        second == transform(preprocessor, input_encoded)
    IN IF preprocessor.file # "ok"
       THEN Prepared(FALSE, Input("values", encode_categorical(row)), <<>>)
       ELSE CASE first = "ok" ->
                    Prepared(FALSE, Input("transformed", row),
                             <<CallEv("transform", first, input_df)>>)
              [] first \in {"value_error", "error"} ->
                    Prepared(FALSE,
                             IF second = "ok"
                             THEN Input("transformed", input_encoded.row)
                             ELSE Input("values", input_encoded.row),
                             <<CallEv("transform", first, input_df),
                               Ev("st.info", "Using fallback encoding for categorical features..."),
                               CallEv("transform", second, input_encoded)>>)
              [] OTHER ->
                    Prepared(TRUE, input_df, <<CallEv("transform", first, input_df)>>)

\* The preprocessing step: the inference input, or failed when the first
\* transform raises something that is neither ValueError nor TypeError.
preprocess(preprocessor, row) ==
    LET input_df == Input("df", row)
        input_encoded == Input("df", encode_categorical(row))
        first == transform(preprocessor, input_df)
        second == transform(preprocessor, input_encoded)
    IN IF preprocessor.file # "ok"
       THEN Prepared(FALSE, Input("values", encode_categorical(row)), <<>>)
       ELSE CASE first = "ok" ->
                    Prepared(FALSE, Input("transformed", row),
                             <<CallEv("transform", first, input_df)>>)
              [] first = "value_error" ->
                    Prepared(FALSE,
                             IF second = "ok"
                             THEN Input("transformed", input_encoded.row)
                             ELSE Input("values", input_encoded.row),
                             <<CallEv("transform", first, input_df),
                               Ev("st.info", "Using fallback encoding for categorical features..."),
                               CallEv("transform", second, input_encoded)>>)
              [] OTHER ->
                    Prepared(TRUE, input_df, <<CallEv("transform", first, input_df)>>)

\* The probability step: the confidence shown, None when there is none
confidence(model, input) ==
    IF model.proba = "absent" THEN [value |-> None, events |-> <<>>]
    ELSE IF model.proba = "raises"
    THEN [value |-> None, events |-> <<CallEv("predict_proba", "error", input)>>]
    ELSE [value |-> "max(proba)", events |-> <<CallEv("predict_proba", "ok", input)>>]

\* A try block in which a raising predict_proba fails the prediction
make_prediction_strict(model, preprocessor, row) ==
    LET failed == <<Ev("st.error", "Prediction failed")>>
        called(outcome, input) == <<CallEv("predict", outcome, input)>>
        shown(conf) == <<Ev("prediction-result", conf.value), Ev("st.json", "form_values")>>
        infer(prepared) ==
            IF prepared.failed THEN prepared.events \o failed
            ELSE IF predict(model, prepared.input) = "error"
            THEN prepared.events \o called("error", prepared.input) \o failed
            ELSE IF model.proba = "raises"
            THEN prepared.events \o called("ok", prepared.input)
                 \o confidence(model, prepared.input).events \o failed
            ELSE prepared.events \o called("ok", prepared.input)
                 \o confidence(model, prepared.input).events
                 \o shown(confidence(model, prepared.input))
    IN infer(preprocess(preprocessor, row))

\* The try block of the prediction button
make_prediction(model, preprocessor, row) ==
    LET failed == <<Ev("st.error", "Prediction failed")>>
        called(outcome, input) == <<CallEv("predict", outcome, input)>>
        shown(conf) == <<Ev("prediction-result", conf.value), Ev("st.json", "form_values")>>
        infer(prepared) ==
            IF prepared.failed THEN prepared.events \o failed
            ELSE IF predict(model, prepared.input) = "error"
            THEN prepared.events \o called("error", prepared.input) \o failed
            ELSE prepared.events \o called("ok", prepared.input)
                 \o confidence(model, prepared.input).events
                 \o shown(confidence(model, prepared.input))
    IN infer(preprocess(preprocessor, row))

---------------------------------------------------------------------------
(* run_legacy_ui(temp_dir) *)

\* What a call returns to main: its log, how it ended ("returned", "raised":
\* an exception, "rerun": st.rerun()), and whether it cleared the query
\* parameters. again: the widgets of an earlier call of the same pass exist,
\* and the sidebar button raises DuplicateWidgetID.
Ran(exit, events) == [exit |-> exit, events |-> events]

run_legacy_ui(pkg, u, again) ==
    LET start == <<Ev("run_legacy_ui", "")>>
        sidebar == <<Ev("st.sidebar", "Model Info")>>
        button == <<Ev("st.button", "Choose Different Model")>>
        subheader == <<Ev("st.subheader", "Enter Feature Values")>>
        predict_button == <<Ev("st.button", "Make Prediction")>>
        top == start \o sidebar \o button \o subheader
        with_form(c, form) ==
            IF form.raised THEN Ran("raised", top \o form.events)
            ELSE IF u.clicked # "predict"
            THEN Ran("returned", top \o form.events \o predict_button)
            ELSE Ran("returned",
                     top \o form.events \o predict_button \o Clicked("Make Prediction")
                     \o make_prediction(c.model, c.preprocessor, form.values))
        with_components(c) ==
            IF c.model.file # "ok"
            THEN Ran("returned", start \o <<Ev("st.error", "Failed to load model components.")>>)
            ELSE IF c.model_info = "bad_score"
            THEN Ran("raised", start \o sidebar)
            ELSE IF again
            THEN Ran("raised", start \o sidebar \o button)
            ELSE IF u.clicked = "choose_different"
            THEN Ran("rerun",
                     start \o sidebar \o button \o Clicked("Choose Different Model")
                     \o <<Ev("st.rerun", "")>>)
            ELSE IF c.schema.file # "ok" \/ c.schema.json.keys = {}
            THEN Ran("returned",
                     top \o <<Ev("st.warning", "No schema available. Cannot generate form.")>>)
            ELSE with_form(c, generate_form_from_schema(c.schema.json, u.typed))
    IN with_components(load_legacy_components(pkg))

---------------------------------------------------------------------------
(* main() *)

\* requests.get(f"{API_URL}/models/internal/list", headers=...)
fetch_models_list(chan) ==
    LET response == internal_list_models(chan.addr, chan.secret)
    IN IF chan.net = "down" THEN {}
       ELSE IF response.status = 200 THEN response.body.models
       ELSE {}

\* What a pass leaves: its log, how main() ended ("returned", "raised": an
\* exception left main(), "rerun": st.rerun() ended the pass), the query
\* parameter, the import path, and the directory it created and dropped
\* without cleanup() (0: none), which only the finalizer of the
\* TemporaryDirectory object removes.
Passed(exit, events, query, path, dropped) ==
    [exit |-> exit, events |-> events, query |-> query, path |-> path,
     dropped |-> dropped]

\* The model selector: no model id in the URL
selector(u) ==
    LET models == fetch_models_list(u.chan)
        with_package == {m.id : m \in {x \in models : x.has_package}}
        selected == CHOOSE id \in with_package : \A other \in with_package : id <= other
        head == <<Ev("st.info", "Select a model to make predictions"),
                  Ev("requests.get", "list")>>
        choose == <<Ev("st.selectbox", "Choose Model"), Ev("st.button", "Load Model")>>
    IN IF models = {}
       THEN Passed("returned",
                   head \o <<Ev("st.warning", "No models available.")>>,
                   query_model, sys_path, 0)
       ELSE IF with_package = {}
       THEN Passed("returned",
                   head \o <<Ev("st.warning", "No models with prediction packages available.")>>,
                   query_model, sys_path, 0)
       ELSE IF u.clicked = "load"
       THEN Passed("rerun", head \o choose \o Clicked("Load Model") \o <<Ev("st.rerun", "")>>,
                   ToString(selected), sys_path, 0)
       ELSE Passed("returned", head \o choose, query_model, sys_path, 0)

\* The try block of main(): the bundled script or the legacy UI
render(pkg, u) ==
    LET setup_failed == <<Ev("st.error", "Failed to setup bundled app"),
                          Ev("st.warning", "Falling back to legacy UI...")>>
        exec_failed == <<Ev("st.error", "Failed to execute bundled app"),
                         Ev("st.warning", "Could not run bundled app headers. Trying legacy UI.")>>
        tried == IF pkg.app = "raises" THEN <<Ev("exec", "streamlit_app.py")>> ELSE <<>>
        again(first, second) ==
            Ran(second.exit,
                tried \o exec_failed \o first.events \o setup_failed \o second.events)
        fallback(first) ==
            CASE pkg.app = "none" -> first
              [] pkg.app = "unreadable" -> Ran(first.exit, setup_failed \o first.events)
              [] OTHER ->
                   IF first.exit = "raised"
                   THEN again(first, run_legacy_ui(pkg, u, TRUE))
                   ELSE Ran(first.exit, tried \o exec_failed \o first.events)
    IN IF pkg.app = "ok"
       THEN Ran("returned", <<Ev("exec", "streamlit_app.py")>>)
       ELSE fallback(run_legacy_ui(pkg, u, FALSE))

\* sys.path after the check for the bundled script
path_after(pkg, d) ==
    IF pkg.app # "none" /\ \A i \in 1..Len(sys_path) : sys_path[i] # d
    THEN <<d>> \o sys_path
    ELSE sys_path

\* main(), for the interaction u; d is the name of the next temporary directory
main(u, d) ==
    LET back == <<Ev("st.button", "Back to Model Selection")>>
        cleanup == <<Ev("cleanup", ToString(d))>>
        rendered(loaded, ran) ==
            Passed(ran.exit, loaded.events \o ran.events \o cleanup,
                   IF ran.exit = "rerun" THEN None ELSE query_model,
                   path_after(loaded.pkg, d), 0)
        with_package(loaded) ==
            IF Truthy(loaded.error)
            THEN IF u.clicked = "back"
                 THEN Passed("rerun",
                             loaded.events \o <<Ev("st.error", loaded.error)>> \o back
                             \o Clicked("Back to Model Selection") \o <<Ev("st.rerun", "")>>,
                             None, sys_path, loaded.created)
                 ELSE Passed("returned",
                             loaded.events \o <<Ev("st.error", loaded.error)>> \o back,
                             query_model, sys_path, loaded.created)
            ELSE IF loaded.temp_dir = 0
            THEN Passed("raised", loaded.events, query_model, sys_path, loaded.created)
            ELSE rendered(loaded, render(loaded.pkg, u))
    IN IF ~Truthy(query_model) THEN selector(u)
       ELSE with_package(load_model_package(query_model, u.chan, d))

---------------------------------------------------------------------------
(* Render passes of the Streamlit app *)

\* A render pass: Streamlit runs main() top to bottom for one interaction.
\* Whether the finalizer of a dropped TemporaryDirectory has run by the end
\* of the pass is up to the interpreter.
RenderPass ==
    \E u \in Interactions :
        /\ pass.n < MaxPasses
        /\ \E r \in {main(u, next_dir + 1)} :
              /\ pass' = [n |-> pass.n + 1, exit |-> r.exit, events |-> r.events]
              /\ query_model' = r.query
              /\ sys_path' = r.path
              /\ \E finalized \in IF r.dropped = 0 THEN {TRUE} ELSE BOOLEAN :
                    disk' = IF finalized THEN disk ELSE disk \cup {r.dropped}
              /\ next_dir' = IF \E i \in 1..Len(r.events) :
                                     r.events[i].op = "TemporaryDirectory"
                              THEN next_dir + 1 ELSE next_dir
        /\ UNCHANGED <<experiments, store, resp, call>>

\* The tables and stores the passes run against: no or one experiment and
\* nothing in the store, or a completed experiment whose path leads to
\* PackageKey, where the store holds empty bytes, raises, or holds a package.
UiRows ==
    [user_id : {1}, status : {"completed"}, path : {None, "models/abc/model.zip"}]
    \cup [user_id : {1}, status : {"running"}, path : {None}]

UiTables == UNION {[D -> UiRows] : D \in SUBSET {1}}

UiBlobs ==
    {Blob("empty", BasePackage), Blob("raise", BasePackage)}
    \cup {Blob("bytes", p) : p \in Packages}

Published == [user_id |-> 1, status |-> "completed", path |-> "models/abc/model.zip"]

QueryValues == {None, "1", "x"}

InitUi ==
    /\ \/ /\ experiments \in UiTables
          /\ store = [k \in {PackageKey} |-> NoBlob]
       \/ /\ experiments = [e \in {1} |-> Published]
          /\ store \in [{PackageKey} -> UiBlobs]
    /\ resp = NoRequest
    /\ query_model \in QueryValues
    /\ sys_path = <<>>
    /\ disk = {}
    /\ next_dir = 0
    /\ pass = NoPass
    /\ call = NoCall

NextUi == RenderPass

SpecUi == InitUi /\ [][NextUi]_vars

---------------------------------------------------------------------------
(* The Form Renderer called on its own: generate_form_from_schema(schema) *)
(* for one schema and one user, who types text into the free-text inputs  *)
(* or leaves every widget as it is.                                        *)

\* The values a schema gives for min, max and default
AttributeValues ==
    {Absent, NoneV, Num(0), Num(3), Num(7), Num(1200), Str("5"), Str("low")}

OptionLists == {<<>>, <<Str("a"), Str("b")>>}

FormFields ==
    { Field("x", t, lo, hi, dflt, <<>>) :
        t \in {"number", "slider"}, lo \in AttributeValues,
        hi \in AttributeValues, dflt \in AttributeValues }
    \cup { Field("x", t, Absent, Absent, Absent, o) :
             t \in {"dropdown", "radio"}, o \in OptionLists }
    \cup { Field("x", "checkbox", Absent, Absent, dflt, <<>>) :
             dflt \in {Absent, Bool(TRUE), Bool(FALSE)} }
    \cup { Field("x", t, Absent, Absent, dflt, <<>>) :
             t \in {"text", "color", None}, dflt \in {Absent, Str("y"), Num(3)} }

\* Schemas of one field, alone or after a number field
FormSchemas == {<<f>> : f \in FormFields} \cup {<<FieldAge, f>> : f \in FormFields}

\* Schemas without fields: the empty dict, a dict without 'fields', and a
\* dict with an empty 'fields' list
FieldlessKeys == {{}, {"title"}, {"fields"}}

\* A call with the schema {'fields': schema}
FormCall(schema, typed) ==
    [fn |-> "generate_form_from_schema", keys |-> {"fields"}, schema |-> schema,
     typed |-> typed, done |-> FALSE]

\* A call with a schema of the given keys and no field
FieldlessCall(keys, typed) == [FormCall(<<>>, typed) EXCEPT !.keys = keys]

\* The call returns or raises: form is its outcome, widgets[i] the widget
\* call made for field i and ranges[i] the min_value, max_value and value a
\* number field hands to st.number_input.
RenderForm ==
    /\ call.fn = "generate_form_from_schema"
    /\ ~call.done
    /\ call' =
          [fn |-> call.fn, keys |-> call.keys, schema |-> call.schema,
           typed |-> call.typed, done |-> TRUE,
           form |-> generate_form_from_schema(SchemaJson(call.keys, call.schema),
                                              call.typed),
           widgets |-> [i \in 1..Len(call.schema) |->
                           field_widget(call.schema[i], call.typed)],
           ranges |-> [i \in 1..Len(call.schema) |-> number_args(call.schema[i])]]
    /\ UNCHANGED <<experiments, store, resp, query_model, sys_path, disk, next_dir, pass>>

InitForm ==
    /\ experiments = <<>>
    /\ store = [k \in {PackageKey} |-> NoBlob]
    /\ resp = NoRequest
    /\ query_model = None
    /\ sys_path = <<>>
    /\ disk = {}
    /\ next_dir = 0
    /\ pass = NoPass
    /\ call \in {FormCall(schema, typed) : schema \in FormSchemas, typed \in BOOLEAN}
               \cup {FieldlessCall(keys, typed) : keys \in FieldlessKeys, typed \in BOOLEAN}

NextForm == RenderForm

SpecForm == InitForm /\ [][NextForm]_vars

---------------------------------------------------------------------------
(* The filter main() applies to a bundled streamlit_app.py before exec:    *)
(* the script is parsed, its top-level statements are filtered, and the    *)
(* residual script is compiled and executed.                               *)

MaxStatements == 3

\* A top-level statement of the script as ast.parse returns it: the class
\* of the node, the class of node.value, the class of node.value.func, the
\* attr or id of that func, and whether executing the statement calls
\* streamlit's set_page_config
Stmt(node, value, func, name, configures) ==
    [node |-> node, value |-> value, func |-> func, name |-> name,
     configures |-> configures]

Statements ==
    {Stmt("Expr", "Call", "Attribute", "set_page_config", c) : c \in BOOLEAN}
    \cup {Stmt("Expr", "Call", "Attribute", "title", FALSE)}
    \cup {Stmt("Expr", "Call", "Name", n, c) :
            n \in {"set_page_config", "main"}, c \in BOOLEAN}
    \cup {Stmt("Expr", "Call", "Name", "print", FALSE)}
    \cup {Stmt("Expr", "Call", "Call", "", c) : c \in BOOLEAN}
    \cup {Stmt("Expr", "BoolOp", "", "", c) : c \in BOOLEAN}
    \cup {Stmt("Assign", "Call", "Attribute", "set_page_config", c) : c \in BOOLEAN}
    \cup {Stmt("If", "", "", "", c) : c \in BOOLEAN}
    \cup {Stmt("Import", "", "", "", FALSE)}

Scripts == UNION {[1..n -> Statements] : n \in 1..MaxStatements}

remove_node(node) ==
    /\ node.node = "Expr"
    /\ node.value = "Call"
    /\ \/ node.func = "Attribute" /\ node.name = "set_page_config"
       \/ node.func = "Name" /\ node.name = "set_page_config"

RECURSIVE new_body(_)
new_body(body) ==
    IF body = <<>>
    THEN <<>>
    ELSE IF remove_node(Head(body))
         THEN new_body(Tail(body))
         ELSE <<Head(body)>> \o new_body(Tail(body))

\* ast.parse, the filter, compile and exec of the residual script; a script
\* that does not parse is not executed
exec_bundled(parses, body) ==
    IF parses
    THEN [executed |-> new_body(body),
          printed |-> Len(body) - Len(new_body(body)),
          raised |-> FALSE]
    ELSE [executed |-> <<>>, printed |-> 0, raised |-> TRUE]

ScriptCall(parses, body) ==
    [fn |-> "exec", parses |-> parses, body |-> body, done |-> FALSE]

ExecBundled ==
    /\ call.fn = "exec"
    /\ ~call.done
    /\ \E r \in {exec_bundled(call.parses, call.body)} :
          call' = [fn |-> "exec", parses |-> call.parses, body |-> call.body,
                   done |-> TRUE, executed |-> r.executed,
                   printed |-> r.printed, raised |-> r.raised]
    /\ UNCHANGED <<experiments, store, resp, query_model, sys_path, disk, next_dir, pass>>

InitScript ==
    /\ experiments = <<>>
    /\ store = [k \in {PackageKey} |-> NoBlob]
    /\ resp = NoRequest
    /\ query_model = None
    /\ sys_path = <<>>
    /\ disk = {}
    /\ next_dir = 0
    /\ pass = NoPass
    /\ call \in {ScriptCall(parses, body) : parses \in BOOLEAN, body \in Scripts}

NextScript == ExecBundled

SpecScript == InitScript /\ [][NextScript]_vars

---------------------------------------------------------------------------
(* The schema route of the registry over packages of any content:         *)
(* get_model_schema and download_model asked about experiments that are    *)
(* completed or still running, with the package under PackageKey valid,    *)
(* not a zip archive, or with ui_schema.json absent or not JSON.           *)

GoneKey == "gone.zip"

SchemaPackages ==
    { BasePackage,
      [BasePackage EXCEPT !.zip = "badzip"],
      [BasePackage EXCEPT !.schema = [file |-> "absent", json |-> SchemaJson({}, <<>>)]],
      [BasePackage EXCEPT !.schema = [file |-> "corrupt", json |-> SchemaJson({}, <<>>)]],
      [BasePackage EXCEPT !.schema = [file |-> "ok", json |-> SchemaJson({"fields"}, <<FieldNote>>)]] }

SchemaStores ==
    { [ApiStore EXCEPT ![PackageKey] = Blob("bytes", pkg)] : pkg \in SchemaPackages }

SchemaRows ==
    [user_id : Users, status : {"completed"},
     path : {None, "models/abc/model.zip", EmptyKey, BrokenKey, GoneKey}]
    \cup [user_id : Users, status : {"running"}, path : {None, "models/abc/model.zip"}]

SchemaTables == UNION {[D -> SchemaRows] : D \in SUBSET Ids}

InitSchema ==
    /\ experiments \in SchemaTables
    /\ store \in SchemaStores
    /\ resp = NoRequest
    /\ query_model = None
    /\ sys_path = <<>>
    /\ disk = {}
    /\ next_dir = 0
    /\ pass = NoPass
    /\ call = NoCall

NextSchema ==
    \/ GetModelSchema
    \/ DownloadModel
    \/ Deliver

SpecSchema == InitSchema /\ [][NextSchema]_vars

---------------------------------------------------------------------------
(* The prediction routes: backend/app/routes/predictions.py                *)

\* What request.get_json() returns: any JSON value. t is its Python type,
\* n its length (its value for an int), input the value under 'input' of a
\* dict (Absent when the dict has no such key).
Json(t, n, input) == [t |-> t, n |-> n, input |-> input]
Dict(n) == [t |-> "dict", n |-> n, s |-> ""]

JsonBodies ==
    { Json("none", 0, Absent),
      Json("dict", 0, Absent),
      Json("dict", 1, Absent),
      Json("dict", 1, NoneV),
      Json("dict", 1, Dict(0)),
      Json("dict", 1, Dict(1)),
      Json("dict", 2, Str("5")),
      Json("list", 0, Absent),
      Json("list", 1, Absent),
      Json("str", 4, Absent),
      Json("int", 0, Absent) }

\* Python truthiness of a JSON body and of a tagged value
TruthyJson(data) == data.t # "none" /\ data.n # 0
TruthyValue(v) ==
    CASE v.t \in {"absent", "none"} -> FALSE
      [] v.t = "str" -> v.s # ""
      [] OTHER -> v.n # 0

\* data.get('input'): the value, None for a dict without the key, and
\* AttributeError for a body that is no dict
get_input(data) ==
    IF data.t # "dict" THEN [raised |-> TRUE, value |-> NoneV]
    ELSE IF data.input = Absent THEN [raised |-> FALSE, value |-> NoneV]
    ELSE [raised |-> FALSE, value |-> data.input]

\* The answer of Flask to an exception no handler catches
InternalServerError == Response(500, "text/html", [error |-> "Internal Server Error"], None)

\* POST /api/predict/<model_id> (jwt_required)
predict_endpoint(user_id, model_id, data) ==
    LET answer(input_data) ==
            IF input_data.raised THEN InternalServerError
            ELSE IF ~TruthyValue(input_data.value)
            THEN JsonError(400, "Input data is required")
            ELSE Response(200, "application/json",
                          [prediction |-> NoneV, probability |-> NoneV,
                           model_name |-> experiments[model_id].best_model_name,
                           input |-> input_data.value], None)
    IN IF ~TruthyJson(data) THEN JsonError(400, "No data provided")
       ELSE IF filter_by_id_user(model_id, user_id) = {}
       THEN JsonError(404, "Model not found")
       ELSE IF experiments[model_id].status # "completed"
       THEN JsonError(400, "Model training not completed")
       ELSE answer(get_input(data))

\* POST /api/predict/<model_id>/batch (jwt_required)
batch_predict(user_id, model_id, file) ==
    IF ~file THEN JsonError(400, "No file provided")
    ELSE IF filter_by_id_user(model_id, user_id) = {}
    THEN JsonError(404, "Model not found")
    ELSE IF experiments[model_id].status # "completed"
    THEN JsonError(400, "Model training not completed")
    ELSE Response(202, "application/json",
                  [message |-> "Batch prediction started", model_id |-> model_id], None)

\* explain_prediction with the status check of predict
explain_prediction_completed_only(user_id, model_id, data) ==
    LET answer(input_data) ==
            IF input_data.raised THEN InternalServerError
            ELSE IF ~TruthyValue(input_data.value)
            THEN JsonError(400, "Input data is required")
            ELSE Response(200, "application/json",
                          [prediction |-> NoneV,
                           explanation |-> [feature_importance |-> {}, summary |-> ""]],
                          None)
    IN IF ~TruthyJson(data) THEN JsonError(400, "No data provided")
       ELSE IF filter_by_id_user(model_id, user_id) = {}
       THEN JsonError(404, "Model not found")
       ELSE IF experiments[model_id].status # "completed"
       THEN JsonError(400, "Model training not completed")
       ELSE answer(get_input(data))

\* POST /api/predict/<model_id>/explain (jwt_required)
explain_prediction(user_id, model_id, data) ==
    LET answer(input_data) ==
            IF input_data.raised THEN InternalServerError
            ELSE IF ~TruthyValue(input_data.value)
            THEN JsonError(400, "Input data is required")
            ELSE Response(200, "application/json",
                          [prediction |-> NoneV,
                           explanation |-> [feature_importance |-> {}, summary |-> ""]],
                          None)
    IN IF ~TruthyJson(data) THEN JsonError(400, "No data provided")
       ELSE IF filter_by_id_user(model_id, user_id) = {}
       THEN JsonError(404, "Model not found")
       ELSE answer(get_input(data))

\* A request to a prediction route and its response
Asked(ep, user, id, data, file, r) ==
    [ep |-> ep, user |-> user, id |-> id, data |-> data, file |-> file,
     status |-> r.status, mimetype |-> r.mimetype, body |-> r.body, key |-> r.key]

NoData == Json("none", 0, Absent)

Predict ==
    \E u \in Users, id \in Ids, data \in JsonBodies :
        /\ resp = NoRequest
        /\ \E r \in {predict_endpoint(u, id, data)} :
              resp' = Asked("predict", u, id, data, FALSE, r)
        /\ UNCHANGED <<experiments, store>>
        /\ UiUnchanged

BatchPredict ==
    \E u \in Users, id \in Ids, file \in BOOLEAN :
        /\ resp = NoRequest
        /\ \E r \in {batch_predict(u, id, file)} :
              resp' = Asked("batch_predict", u, id, NoData, file, r)
        /\ UNCHANGED <<experiments, store>>
        /\ UiUnchanged

ExplainPrediction ==
    \E u \in Users, id \in Ids, data \in JsonBodies :
        /\ resp = NoRequest
        /\ \E r \in {explain_prediction(u, id, data)} :
              resp' = Asked("explain_prediction", u, id, data, FALSE, r)
        /\ UNCHANGED <<experiments, store>>
        /\ UiUnchanged

\* The experiments the prediction routes are asked about: completed with or
\* without a best model name, and pending, running or failed without one
PredictRows ==
    [user_id : Users, status : {"completed"}, path : {None},
     best_model_name : {None, "RandomForest"}]
    \cup [user_id : Users, status : {"pending", "running", "failed"}, path : {None},
          best_model_name : {None}]

PredictTables == UNION {[D -> PredictRows] : D \in SUBSET Ids}

InitPredict ==
    /\ experiments \in PredictTables
    /\ store = ApiStore
    /\ resp = NoRequest
    /\ query_model = None
    /\ sys_path = <<>>
    /\ disk = {}
    /\ next_dir = 0
    /\ pass = NoPass
    /\ call = NoCall

NextPredict ==
    \/ Predict
    \/ BatchPredict
    \/ ExplainPrediction
    \/ Deliver

SpecPredict == InitPredict /\ [][NextPredict]_vars

---------------------------------------------------------------------------
(* Properties of the registry *)

ScopedEndpoints == {"get_model", "download_model", "get_model_schema", "delete_model"}

Owns(u, id) == id \in DOMAIN experiments /\ experiments[id].user_id = u

\* What a step of the registry may do for the caller resp'.user
OwnerScopedStep ==
    LET r == resp'
    IN /\ (r.ep \in ScopedEndpoints /\ ~Owns(r.user, r.id)) =>
            /\ r.status = 404
            /\ r.body = [error |-> "Model not found"]
            /\ r.key = None
            /\ experiments' = experiments
       /\ (r.ep = "get_model" /\ r.status = 200) =>
            /\ r.body.model.id = r.id
            /\ r.body.model.user_id = r.user
       /\ r.ep = "list_models" =>
            /\ r.status = 200
            /\ r.body.models =
                  {[id |-> e, user_id |-> r.user, status |-> "completed",
                    path |-> experiments[e].path] :
                      e \in {x \in DOMAIN experiments :
                                 /\ experiments[x].user_id = r.user
                                 /\ experiments[x].status = "completed"}}
       /\ \A e \in DOMAIN experiments \ DOMAIN experiments' :
            /\ r.ep = "delete_model"
            /\ r.id = e
            /\ r.user = experiments[e].user_id
       /\ \A e \in DOMAIN experiments \cap DOMAIN experiments' :
            experiments'[e] = experiments[e]
       /\ DOMAIN experiments' \subseteq DOMAIN experiments

\* C2: the JWT endpoints called by user u answer 404 "Model not found" for an
\* id u does not own, exactly as for an id that does not exist, return only
\* u's experiments (list_models: u's completed ones), and delete only an
\* experiment of u.
C2_OwnerScoped == [][OwnerScopedStep]_vars

\* A delete request for another user's experiment was answered 404 and the
\* experiment is still in the table.
C2_Witness ==
    /\ resp.ep = "delete_model"
    /\ resp.id \in DOMAIN experiments
    /\ experiments[resp.id].user_id # resp.user
    /\ resp.status = 404

\* The access predicate as the interface states it
AccessGranted(remote_addr, provided_secret) ==
    \/ provided_secret = "inferx-internal-2024"
    \/ (Len(remote_addr) >= 4 /\ SubSeq(remote_addr, 1, 4) = "172.")
    \/ remote_addr = "127.0.0.1"

\* The lookup key as the interface states it
LookupKey(p) ==
    IF Len(p) >= 7 /\ SubSeq(p, 1, 7) = "models/" THEN SubSeq(p, 8, Len(p)) ELSE p

StoredUnder(key) ==
    IF key \in DOMAIN store THEN store[key].kind ELSE "none"

\* The status the ordered checks of internal_download_model give a request
ExpectedInternalStatus(r) ==
    IF ~AccessGranted(r.addr, r.secret) THEN 403
    ELSE IF r.id \notin DOMAIN experiments THEN 404
    ELSE IF experiments[r.id].status # "completed" THEN 400
    ELSE IF experiments[r.id].path \in {None, ""} THEN 404
    ELSE IF StoredUnder(LookupKey(experiments[r.id].path)) # "bytes" THEN 500
    ELSE 200

\* C3: internal_download_model answers with the first failing check, in the
\* order 403 (access), 404 (no experiment), 400 (not completed), 404 (no
\* package path), 500 (the store returns nothing or raises), and only
\* otherwise 200 with the package bytes as application/zip.
C3_InternalDownloadOrder ==
    resp.ep = "internal_download_model" =>
        /\ resp.status = ExpectedInternalStatus(resp)
        /\ resp.status \in {403, 404, 400, 500, 200}
        /\ resp.status = 200 =>
              /\ resp.mimetype = "application/zip"
              /\ resp.body = store[LookupKey(experiments[resp.id].path)]
        /\ resp.status # 200 => resp.mimetype = "application/json"

\* A request that fails the access check for an id that does not exist is
\* answered 403.
C3_Witness ==
    /\ resp.ep = "internal_download_model"
    /\ resp.id \notin DOMAIN experiments
    /\ resp.status = 403

\* C4: internal_list_models grants access exactly when internal_download_model
\* does (secret header equal to the configured secret, or remote address
\* starting with '172.', or equal to '127.0.0.1'), answers 403 without model
\* data otherwise, and when granted lists exactly the completed experiments
\* of every owner, has_package telling whether the package path is non-empty.
C4_InternalList ==
    /\ resp.ep \in {"internal_list_models", "internal_download_model"} =>
          (resp.status = 403 <=> ~AccessGranted(resp.addr, resp.secret))
    /\ (resp.ep = "internal_list_models" /\ resp.status = 403) =>
          resp.body = [error |-> "Unauthorized"]
    /\ (resp.ep = "internal_list_models" /\ resp.status # 403) =>
          /\ resp.status = 200
          /\ resp.body.models =
                {[id |-> e, has_package |-> experiments[e].path \notin {None, ""}] :
                    e \in {x \in DOMAIN experiments : experiments[x].status = "completed"}}

\* A granted list holding completed experiments of two owners, one of them
\* without a package.
C4_Witness ==
    /\ resp.ep = "internal_list_models"
    /\ resp.status = 200
    /\ \E m1, m2 \in resp.body.models :
          /\ experiments[m1.id].user_id # experiments[m2.id].user_id
          /\ m1.has_package
          /\ ~m2.has_package

KeyedEndpoints == {"download_model", "get_model_schema", "internal_download_model"}

\* C5: the key looked up in bucket 'models' is the stored path without its
\* first seven characters when the path starts with 'models/', and the path
\* itself otherwise; the prefix is stripped once; download_model,
\* get_model_schema and internal_download_model look up the same key.
C5_LookupKey ==
    (resp.ep \in KeyedEndpoints /\ resp.key # None) =>
        /\ resp.key = LookupKey(experiments[resp.id].path)
        /\ experiments[resp.id].path = "models/abc/model.zip" => resp.key = "abc/model.zip"
        /\ experiments[resp.id].path = "abc/model.zip" => resp.key = "abc/model.zip"
        /\ experiments[resp.id].path = "models/models/abc/model.zip" =>
              resp.key = "models/abc/model.zip"

\* get_model_schema looked up a path that carries the prefix twice.
C5_Witness ==
    /\ resp.ep = "get_model_schema"
    /\ resp.id \in DOMAIN experiments
    /\ experiments[resp.id].path = "models/models/abc/model.zip"
    /\ resp.key = "models/abc/model.zip"

---------------------------------------------------------------------------
(* Properties of a render pass *)

\* The package behind the model of the URL, and what the last pass logged
Pkg == store[PackageKey].pkg
Positions(op) == {i \in DOMAIN pass.events : pass.events[i].op = op}
Has(op) == Positions(op) # {}
Shows(op, arg) == \E i \in Positions(op) : pass.events[i].arg = arg
NoSchemaWarning == "No schema available. Cannot generate form."

\* The last pass unpacked the package; it called run_legacy_ui
LoadedPass == pass.n > 0 /\ Has("extractall") /\ Pkg.zip = "ok"
LegacyPass == LoadedPass /\ Has("run_legacy_ui")

\* The calls of generate_form_from_schema: the layout columns and the
\* widgets placed in them
FormEvent(e) == e.op = "st.columns" \/ e.arg \in {"col1", "col2"}
ExecutorOps == {"transform", "predict", "predict_proba"}
NoForm == \A i \in DOMAIN pass.events : ~FormEvent(pass.events[i])
NoExecutor == \A i \in DOMAIN pass.events : pass.events[i].op \notin ExecutorOps

\* C1 as stated: every temporary directory created in a pass has had
\* cleanup() called on it by the end of the pass.
C1_ExplicitCleanup ==
    \A i \in Positions("TemporaryDirectory") :
        \E j \in Positions("cleanup") :
            j > i /\ pass.events[j].arg = pass.events[i].arg

\* C6 as stated: over a package with model.pkl and without ui_schema.json,
\* run_legacy_ui reports that no schema is available and returns.
C6_AsStated ==
    (LegacyPass /\ Pkg.model.file = "ok" /\ Pkg.schema.file = "absent") =>
        /\ Shows("st.warning", NoSchemaWarning)
        /\ pass.exit = "returned"

\* C6, amended: a pass over a package without ui_schema.json generates no
\* form and calls none of transform, predict and predict_proba; when all
\* present files of the package load, model.pkl is among them, best_score is
\* a number or absent and "Choose Different Model" was not clicked,
\* run_legacy_ui ends with the warning that no schema is available and
\* returns. predict is called only in a pass that unpacked the package, with
\* the predictor and a non-empty schema present and the prediction button
\* clicked.
C6_NoSchema ==
    /\ (pass.n > 0 /\ Pkg.schema.file = "absent") => NoForm /\ NoExecutor
    /\ ( /\ LegacyPass
         /\ Pkg.model.file = "ok"
         /\ Pkg.schema.file = "absent"
         /\ Pkg.prep.file # "corrupt"
         /\ Pkg.info \notin {"corrupt", "bad_score"}
         /\ ~Shows("clicked", "Choose Different Model") ) =>
            /\ pass.exit = "returned"
            /\ pass.events[Len(pass.events) - 1] = Ev("st.warning", NoSchemaWarning)
    /\ Has("predict") =>
            /\ LoadedPass
            /\ Pkg.model.file = "ok"
            /\ Pkg.schema.file = "ok"
            /\ Pkg.schema.json.keys # {}
            /\ Shows("clicked", "Make Prediction")

C6_Witness ==
    /\ LegacyPass
    /\ Pkg.model.file = "ok"
    /\ Pkg.schema.file = "absent"
    /\ Shows("st.warning", NoSchemaWarning)

\* C7 as stated: no exception raised while loading the package, rendering
\* the form or predicting leaves main().
C7_NoEscape ==
    (pass.n > 0 /\ Pkg.info # "bad_score") => pass.exit # "raised"

\* C8 as stated: when the bundled script fails, run_legacy_ui is called
\* exactly once in the pass, before cleanup(); when the script runs,
\* run_legacy_ui is not called.
C8_FallbackOnce ==
    /\ (LoadedPass /\ Pkg.app \in {"unreadable", "syntax_error", "raises"}) =>
            /\ Cardinality(Positions("run_legacy_ui")) = 1
            /\ \A i \in Positions("run_legacy_ui") :
                  \A j \in Positions("cleanup") : i < j
    /\ (LoadedPass /\ Pkg.app = "ok") => ~Has("run_legacy_ui")

\* enc is row with every text-valued column replaced by its category code
\* and every other column unchanged
RowEncodes(enc, row) ==
    /\ Len(enc) = Len(row)
    /\ \A k \in 1..Len(row) :
          /\ enc[k].name = row[k].name
          /\ enc[k].value.t # "str"
          /\ row[k].value.t # "str" => enc[k].value = row[k].value

\* The first call of the prediction button's try block; the first transform
\* calls that raised ValueError or TypeError
AfterClick == {i \in DOMAIN pass.events :
                 i > 1 /\ pass.events[i - 1] = Ev("clicked", "Make Prediction")}
FirstRejected == {i \in AfterClick :
                    pass.events[i].op = "transform" /\ pass.events[i].arg = "value_error"}
PredictionFailed == Shows("st.error", "Prediction failed")

\* C9: when the first transform call raises ValueError or TypeError, the
\* text-valued columns of the row are encoded and transform is called again
\* on the encoded row; predict is then called on the output of the second
\* call, or on the encoded values when the second call raised, and a
\* failure is reported only when predict itself raised. Without a
\* preprocessor, predict is called on the encoded values of the row.
C9_CategoricalFallback ==
    /\ \A i \in FirstRejected :
          LET e == pass.events
          IN /\ Len(e) >= i + 3
             /\ e[i].via = "df"
             /\ e[i + 1] = Ev("st.info", "Using fallback encoding for categorical features...")
             /\ e[i + 2].op = "transform"
             /\ e[i + 2].via = "df"
             /\ RowEncodes(e[i + 2].row, e[i].row)
             /\ e[i + 3].op = "predict"
             /\ e[i + 3].row = e[i + 2].row
             /\ e[i + 3].via = IF e[i + 2].arg = "ok" THEN "transformed" ELSE "values"
             /\ PredictionFailed <=> e[i + 3].arg = "error"
    /\ \A i \in AfterClick :
          Pkg.prep.file = "absent" =>
             /\ pass.events[i].op = "predict"
             /\ pass.events[i].via = "values"
             /\ \A k \in 1..Len(pass.events[i].row) :
                   pass.events[i].row[k].value.t # "str"
             /\ [k \in 1..Len(pass.events[i].row) |-> pass.events[i].row[k].name]
                  = [k \in 1..Len(Pkg.schema.json.fields) |-> Pkg.schema.json.fields[k].name]

C9_Witness ==
    \E i \in FirstRejected :
        /\ \E k \in 1..Len(pass.events[i].row) : pass.events[i].row[k].value.t = "str"
        /\ pass.events[i + 2].arg # "ok"
        /\ pass.events[i + 3].arg = "ok"

\* C10: whenever predict succeeds the prediction is shown and no failure is
\* reported; the confidence shown is the maximum class probability when
\* predict_proba exists and succeeds, and none when predict_proba is
\* missing (it is then not called) or raises.
C10_BestEffortConfidence ==
    \A i \in Positions("predict") :
        pass.events[i].arg = "ok" =>
            LET e == pass.events
                shown == CHOOSE j \in Positions("prediction-result") : TRUE
            IN /\ Cardinality(Positions("prediction-result")) = 1
               /\ shown > i
               /\ ~PredictionFailed
               /\ Pkg.model.proba = "absent" =>
                     ~Has("predict_proba") /\ e[shown].arg = None
               /\ Pkg.model.proba # "absent" =>
                     /\ e[i + 1].op = "predict_proba"
                     /\ e[i + 1].via = e[i].via
                     /\ e[i + 1].row = e[i].row
                     /\ e[i + 1].arg = "ok" => e[shown].arg = "max(proba)"
                     /\ e[i + 1].arg # "ok" => e[shown].arg = None

C10_Witness ==
    \E i \in Positions("predict") :
        /\ pass.events[i].arg = "ok"
        /\ Pkg.model.proba = "raises"
        /\ Shows("prediction-result", None)

---------------------------------------------------------------------------
(* Properties of the Form Renderer *)

FormDone == call.fn = "generate_form_from_schema" /\ call.done
FieldsOfType(t) ==
    IF FormDone
    THEN {i \in 1..Len(call.schema) : call.schema[i].input_type = t}
    ELSE {}

\* What a schema asks of a number field: an attribute that is absent or null
\* stands for its default (min 0, max 1000, default = min)
Unset(v) == v.t \in {"absent", "none"}
AllCoerce(f) == \A v \in {f.min, f.max, f.default} : Unset(v) \/ Coercible(v)
AskedMin(f) == IF Unset(f.min) THEN 0 ELSE Coerced(f.min)
AskedMax(f) == IF Unset(f.max) THEN 1000 ELSE Coerced(f.max)
AskedDefault(f) == IF Unset(f.default) THEN AskedMin(f) ELSE Coerced(f.default)

\* C11 as stated: the initial value of a number field whose attributes
\* coerce lies in [min, max], also when the schema gives min > max, and
\* equals default when min <= default <= max.
C11_AsStated ==
    \A i \in FieldsOfType("number") :
        LET f == call.schema[i]
            v == call.ranges[i].value
        IN AllCoerce(f) =>
              /\ AskedMin(f) <= v /\ v <= AskedMax(f)
              /\ (AskedMin(f) <= AskedDefault(f) /\ AskedDefault(f) <= AskedMax(f))
                    => v = AskedDefault(f)

\* C11, amended: for a number field whose attributes coerce, the initial
\* value lies in [min, max] whenever min <= max and equals default when
\* min <= default <= max; when the schema gives min > max the initial value
\* is min, above max, and st.number_input raises.
C11_Clamped ==
    \A i \in FieldsOfType("number") :
        LET f == call.schema[i]
            v == call.ranges[i].value
        IN AllCoerce(f) =>
              /\ call.ranges[i].min = AskedMin(f)
              /\ call.ranges[i].max = AskedMax(f)
              /\ AskedMin(f) <= AskedMax(f) => AskedMin(f) <= v /\ v <= AskedMax(f)
              /\ (AskedMin(f) <= AskedDefault(f) /\ AskedDefault(f) <= AskedMax(f))
                    => v = AskedDefault(f)
              /\ AskedMin(f) > AskedMax(f) =>
                    /\ v = AskedMin(f)
                    /\ call.widgets[i].raised
                    /\ call.form.raised

C11_Witness ==
    \E i \in FieldsOfType("number") :
        LET f == call.schema[i]
        IN /\ AllCoerce(f)
           /\ AskedMin(f) <= AskedMax(f)
           /\ AskedDefault(f) > AskedMax(f)
           /\ call.ranges[i].value = AskedMax(f)

\* C12: a number field with a min, max or default that float() rejects gets
\* min 0, max 1000 and initial value 0, whatever its other attributes; an
\* absent or null attribute is no failure and stands for min 0, max 1000 and
\* default = min.
C12_NumberFallback ==
    \A i \in FieldsOfType("number") :
        LET f == call.schema[i]
            r == call.ranges[i]
        IN /\ ~AllCoerce(f) => r = [min |-> 0, max |-> 1000, value |-> 0]
           /\ AllCoerce(f) =>
                 /\ Unset(f.min) => r.min = 0
                 /\ Unset(f.max) => r.max = 1000
                 /\ Unset(f.default) => r.value = r.min

C12_Witness ==
    \E i \in FieldsOfType("number") :
        /\ call.schema[i].min = Num(3)
        /\ call.schema[i].max = Str("low")
        /\ call.schema[i].default = Num(7)
        /\ call.ranges[i] = [min |-> 0, max |-> 1000, value |-> 0]

Options(f) == {f.options[k] : k \in 1..Len(f.options)}

\* C13 as stated: a radio field with options offers a single choice among
\* them, so its value is a member of options and never free text.
C13_RadioChoice ==
    \A i \in FieldsOfType("radio") :
        Options(call.schema[i]) # {} =>
            /\ call.widgets[i].op # "st.text_input"
            /\ call.widgets[i].value \in Options(call.schema[i])

\* C14: a dropdown field without options is rendered as a free-text input
\* whose value is a string; a dropdown field with options is rendered as a
\* select box whose value is one of the options.
C14_Dropdown ==
    \A i \in FieldsOfType("dropdown") :
        LET f == call.schema[i]
            w == call.widgets[i]
        IN /\ ~w.raised
           /\ ~call.form.raised => call.form.values[i] = [name |-> f.name, value |-> w.value]
           /\ Options(f) = {} => w.op = "st.text_input" /\ w.value.t = "str"
           /\ Options(f) # {} => w.op = "st.selectbox" /\ w.value \in Options(f)

C14_Witness ==
    \E i \in FieldsOfType("dropdown") :
        /\ Options(call.schema[i]) = {}
        /\ call.typed
        /\ call.form.values[i].value = Str(TypedText)

\* A slider attribute that int() rejects: text that is no numeral, or null
RejectedByInt(f) ==
    \E v \in {f.min, f.max, f.default} : v.t # "absent" /\ ~Coercible(v)

\* C15: for a slider field with a min, max or default that int() rejects,
\* generate_form_from_schema raises: no slider is created, no values are
\* returned (the loop stops before the field), whereas a number field with
\* such an attribute is rendered.
C15_SliderRaises ==
    /\ \A i \in FieldsOfType("slider") :
          RejectedByInt(call.schema[i]) =>
             /\ call.widgets[i].raised
             /\ call.widgets[i].op # "st.slider"
             /\ call.form.raised
             /\ Len(call.form.values) = i - 1
             /\ \A k \in 1..Len(call.form.events) : call.form.events[k].op # "st.slider"
    /\ \A i \in FieldsOfType("number") :
          ~AllCoerce(call.schema[i]) =>
             /\ ~call.widgets[i].raised
             /\ ~call.form.raised
             /\ Len(call.form.values) = Len(call.schema)

C15_Witness ==
    \E i \in FieldsOfType("slider") :
        /\ i = 2
        /\ call.schema[i].min = Str("low")
        /\ call.form.raised
        /\ Len(call.form.values) = 1

---------------------------------------------------------------------------
(* Properties of the calls to the registry *)

\* (temp_dir_obj, temp_dir_path, error_message) as load_model_package returns it
Returned(loaded) == <<loaded.temp_dir_obj, loaded.temp_dir, loaded.error>>

\* The channels over which the registry answers and grants internal access
GrantedChannels ==
    {chan \in Channels : chan.net = "ok" /\ is_internal_download(chan.addr, chan.secret)}

\* The completed experiments without a package path
WithoutPackage ==
    {id \in DOMAIN experiments :
        experiments[id].status = "completed" /\ ~Truthy(experiments[id].path)}

\* C16 as stated: what load_model_package returns for a completed experiment
\* without a package path differs from what it returns for a fetch error,
\* such as an unknown model id.
C16_NoPackageExplicit ==
    \A chan \in GrantedChannels, id \in WithoutPackage :
        \A unknown \in (0..MaxNumeral) \ DOMAIN experiments :
            Returned(load_model_package(ToString(id), chan, next_dir + 1))
               # Returned(load_model_package(ToString(unknown), chan, next_dir + 1))

\* The channels over which the list request fails, and those over which it
\* is answered with status 200
FailingListChannels ==
    {chan \in Channels : chan.net = "down" \/ ~is_internal_list(chan.addr, chan.secret)}
AnsweringListChannels == Channels \ FailingListChannels

Idle(chan) == [chan |-> chan, clicked |-> "none", typed |-> FALSE]

\* C17 as stated: a failed list request reaches the caller of
\* fetch_models_list, and the user, as something else than a successful
\* request that returned no models.
C17_ListFailureSurfaces ==
    \A failing \in FailingListChannels, ok \in AnsweringListChannels :
        fetch_models_list(ok) = {} =>
            /\ fetch_models_list(failing) # fetch_models_list(ok)
            /\ selector(Idle(failing)).events # selector(Idle(ok)).events

\* How often a pass with log e made the call op with argument arg
Calls(e, op, arg) == Cardinality({i \in DOMAIN e : e[i].op = op /\ e[i].arg = arg})
Made(e, op) == {i \in DOMAIN e : e[i].op = op}

\* What a render pass does, from the state it starts in
OneRequestStep ==
    LET e == pass'.events
        fresh == ToString(next_dir + 1)
    IN pass'.n = pass.n + 1 =>
          /\ Truthy(query_model) =>
                /\ Calls(e, "requests.get", "download") = 1
                /\ Calls(e, "requests.get", "list") = 0
          /\ ~Truthy(query_model) =>
                /\ Calls(e, "requests.get", "list") = 1
                /\ Calls(e, "requests.get", "download") = 0
                /\ Made(e, "TemporaryDirectory") = {}
          /\ Cardinality(Made(e, "TemporaryDirectory")) <= 1
          /\ Cardinality(Made(e, "extractall")) <= 1
          /\ \A i \in Made(e, "TemporaryDirectory") \cup Made(e, "extractall") :
                /\ e[i].arg = fresh
                /\ next_dir + 1 \notin disk
                /\ next_dir' = next_dir + 1
          /\ \A i \in Made(e, "extractall") :
                /\ Calls(e, "TemporaryDirectory", fresh) = 1
                /\ \E j \in Made(e, "requests.get") : j < i
          /\ \A i \in Made(e, "run_legacy_ui") \cup Made(e, "exec") :
                \E j \in Made(e, "extractall") : j < i

\* C18: a render pass makes one request to the registry, the list request
\* when the URL has no model id and the download request when it has one,
\* and never repeats it; what a pass renders it has downloaded itself and
\* unpacked into a directory created in that pass.
C18_OneRequest == [][OneRequestStep]_vars

C18_Witness ==
    /\ pass.n = 2
    /\ next_dir = 2
    /\ Shows("extractall", "2")
    /\ Has("run_legacy_ui")

\* C19 as stated: a render pass leaves the interpreter's import search
\* path as it found it, whether it ran a bundled script or the legacy UI.
C19_NoSharedState == [][pass'.n = pass.n + 1 => sys_path' = sys_path]_vars

---------------------------------------------------------------------------
(* Properties of the bundled script filter *)

Executed == call.fn = "exec" /\ call.done /\ ~call.raised

PageConfigStatement(node) ==
    /\ node.node = "Expr"
    /\ node.value = "Call"
    /\ node.func \in {"Attribute", "Name"}
    /\ node.name = "set_page_config"

\* C20 as stated: the script that runs is the original sequence of
\* top-level statements, in order and unchanged, without the top-level
\* expression statements that call set_page_config by attribute or bare
\* name, and running it performs no set_page_config call.
C20_NoPageConfig ==
    Executed =>
        /\ call.executed = SelectSeq(call.body, LAMBDA node : ~PageConfigStatement(node))
        /\ \A i \in DOMAIN call.executed : ~call.executed[i].configures

---------------------------------------------------------------------------
(* Properties of the prediction routes *)

Owned(user, id) == id \in DOMAIN experiments /\ experiments[id].user_id = user

\* The status the order of validation of predict gives a request
PredictStatus(user, id, data) ==
    IF ~TruthyJson(data) THEN 400
    ELSE IF ~Owned(user, id) THEN 404
    ELSE IF experiments[id].status # "completed" THEN 400
    ELSE IF data.t # "dict" \/ ~TruthyValue(data.input) THEN 400
    ELSE 200

PredictAnswered ==
    resp'.ep = "predict" =>
        /\ resp'.status = PredictStatus(resp'.user, resp'.id, resp'.data)
        /\ resp'.status = 200 =>
              /\ resp'.body.prediction = NoneV
              /\ resp'.body.probability = NoneV
              /\ resp'.body.model_name = experiments[resp'.id].best_model_name
              /\ resp'.body.input = resp'.data.input
        /\ resp'.key = None
        /\ experiments' = experiments
        /\ store' = store

\* C21 as stated: predict answers with the first failure of a fixed order of
\* checks (400 no body, 404 not owned, 400 not completed, 400 no input),
\* else 200 with the stub result and the input echoed; it reads no model
\* and changes no stored state.
C21_PredictOrder == [][PredictAnswered]_vars

Unfinished == {"pending", "running", "failed"}

ExplainAnswered ==
    /\ ( /\ resp'.ep = "explain_prediction"
         /\ Owned(resp'.user, resp'.id)
         /\ experiments[resp'.id].status \in Unfinished
         /\ resp'.data.t = "dict"
         /\ TruthyJson(resp'.data)
         /\ TruthyValue(resp'.data.input) )
          => /\ resp'.status = 200
             /\ resp'.body.prediction = NoneV
             /\ resp'.body.explanation = [feature_importance |-> {}, summary |-> ""]
             /\ predict_endpoint(resp'.user, resp'.id, resp'.data).status = 400
             /\ \A file \in BOOLEAN :
                   batch_predict(resp'.user, resp'.id, file).status = 400
    /\ resp'.ep = "batch_predict" =>
          /\ ~resp'.file => resp'.status = 400
          /\ resp'.file /\ ~Owned(resp'.user, resp'.id) => resp'.status = 404

\* C26: explain_prediction answers 200 with prediction None and an empty
\* explanation for an owned experiment that is pending, running or failed
\* when the body and its 'input' are non-empty, while predict and
\* batch_predict answer 400 for that experiment; batch_predict answers 400
\* for a missing file before it answers 404 for an experiment not owned.
C26_ExplainUnchecked == [][ExplainAnswered]_vars

C26_Witness ==
    /\ resp.ep = "explain_prediction"
    /\ resp.status = 200
    /\ Owned(resp.user, resp.id)
    /\ experiments[resp.id].status = "failed"
    /\ \E id \in Ids : ~Owned(resp.user, id) /\ batch_predict(resp.user, id, FALSE).status = 400

---------------------------------------------------------------------------
(* Properties of the schema route *)

\* What the object store holds for the package path of an experiment
Stored(id) ==
    LET path == experiments[id].path
        key == IF StartsWith(path, "models/") THEN SliceFrom(path, 7) ELSE path
    IN IF key \in DOMAIN store THEN store[key] ELSE NoBlob

\* The cases in which the schema route answers with {'fields': []}
NoPath(id) == experiments[id].path \in {None, ""}
NothingStored(id) == Stored(id).kind \in {"none", "empty", "raise"}
NotAZip(id) == Stored(id).pkg.zip = "badzip"
NoSchemaFile(id) == Stored(id).pkg.schema.file = "absent"
SchemaNotJson(id) == Stored(id).pkg.schema.file = "corrupt"

SchemaAnswered(defaults(_)) ==
    resp'.ep = "get_model_schema" =>
        /\ ~Owned(resp'.user, resp'.id) => resp'.status = 404
        /\ Owned(resp'.user, resp'.id) =>
              /\ resp'.status = 200
              /\ resp'.body.ui_schema =
                    IF defaults(resp'.id) THEN EmptyUiSchema
                    ELSE Stored(resp'.id).pkg.schema.json
              /\ experiments[resp'.id].status # "completed" =>
                    download_model(resp'.user, resp'.id).status = 400

StatedDefaults(id) ==
    NoPath(id) \/ NothingStored(id) \/ NotAZip(id) \/ NoSchemaFile(id)

ActualDefaults(id) ==
    StatedDefaults(id) \/ SchemaNotJson(id)

\* C25 as stated: for an owned experiment get_model_schema answers 200,
\* with {'fields': []} when there is no package path, nothing comes from
\* the object store, the payload is no zip or the archive has no
\* ui_schema.json, and with the content of ui_schema.json otherwise.
C25_AsStated == [][SchemaAnswered(StatedDefaults)]_vars

\* C25: for an owned experiment of any status get_model_schema answers 200,
\* with {'fields': []} when there is no package path, nothing comes from
\* the object store, the payload is no zip, the archive has no
\* ui_schema.json or its ui_schema.json is not JSON, and with the content
\* of ui_schema.json otherwise; it answers 404 only when the caller owns no
\* such experiment, and download_model answers 400 where the experiment is
\* not completed.
C25_SchemaNeverFails == [][SchemaAnswered(ActualDefaults)]_vars

C25_Witness ==
    /\ resp.ep = "get_model_schema"
    /\ resp.status = 200
    /\ Owned(resp.user, resp.id)
    /\ experiments[resp.id].status = "running"
    /\ ~NoPath(resp.id)
    /\ SchemaNotJson(resp.id)
    /\ resp.body.ui_schema = EmptyUiSchema

---------------------------------------------------------------------------
(* Properties of the mapping the Form Renderer returns *)

Recognised == {"number", "dropdown", "slider", "checkbox"}

\* The layout column of field i, counted from 1 as the model counts
ColumnOf(i) == IF (i - 1) % 2 = 0 THEN "col1" ELSE "col2"

\* One entry per field, keyed by the field's name, in declaration order,
\* each widget in its column and each value the one the field's widget gives
\* wherever the field stands
OneEntryPerField ==
    /\ ~call.form.raised
    /\ Len(call.form.values) = Len(call.schema)
    /\ Len(call.form.events) = Len(call.schema) + 1
    /\ \A i \in 1..Len(call.schema) :
          /\ call.form.values[i].name = call.schema[i].name
          /\ call.form.values[i].value = field_widget(call.schema[i], call.typed).value
          /\ call.form.events[i + 1].arg = ColumnOf(i)
          /\ call.schema[i].input_type \notin Recognised =>
                /\ call.form.events[i + 1].op = "st.text_input"
                /\ ~call.typed =>
                      call.form.values[i].value =
                          Str(PyStr(GetOr(call.schema[i].default, Str(""))))

NoWidget ==
    /\ ~call.form.raised
    /\ call.form.values = <<>>
    /\ call.form.events = <<>>

WidgetRaises == \E i \in 1..Len(call.schema) : call.widgets[i].raised

---------------------------------------------------------------------------
(* Properties of a failing preprocessor *)

\* The first transform calls that raised something other than ValueError
\* and TypeError
FirstFailed == {i \in AfterClick :
                  pass.events[i].op = "transform" /\ pass.events[i].arg = "error"}

\* C23: when the first transform call raises an exception that is neither
\* ValueError nor TypeError there is no categorical fallback: transform is
\* not called again, predict and predict_proba are not called, and the
\* pass ends with the message "Prediction failed".
C23_NoFallback ==
    \A i \in FirstFailed :
        LET e == pass.events
        IN /\ Pkg.prep.file = "ok"
           /\ Positions("transform") = {i}
           /\ ~Has("predict")
           /\ ~Has("predict_proba")
           /\ ~Has("prediction-result")
           /\ ~Shows("st.info", "Using fallback encoding for categorical features...")
           /\ Len(e) > i
           /\ e[i + 1] = Ev("st.error", "Prediction failed")
           /\ \A k \in DOMAIN e : k > i + 1 => e[k].op = "cleanup"
           /\ pass.exit = "returned"

C23_Witness ==
    \E i \in FirstFailed :
        /\ Pkg.prep.transform = "rejects_other"
        /\ PredictionFailed
        /\ pass.events[i].via = "df"

---------------------------------------------------------------------------
(* Properties of the loader of the legacy components *)

Unloadable(pkg) ==
    \/ pkg.model.file = "corrupt"
    \/ pkg.prep.file = "corrupt"
    \/ pkg.schema.file = "corrupt"
    \/ pkg.info = "corrupt"

\* The four components determined file by file
FileByFile(pkg) ==
    [model |-> IF pkg.model.file = "absent" THEN NoModel ELSE pkg.model,
     preprocessor |-> IF pkg.prep.file = "absent" THEN NoPrep ELSE pkg.prep,
     schema |-> IF pkg.schema.file = "absent" THEN NoSchema ELSE pkg.schema,
     model_info |-> IF pkg.info = "absent" THEN "{}" ELSE pkg.info]

NoComponents ==
    [model |-> NoModel, preprocessor |-> NoPrep, schema |-> NoSchema, model_info |-> None]

ComponentsFailed == Shows("st.error", "Failed to load model components.")

\* C24: load_legacy_components returns the four components determined file
\* by file, or four times None when loading any present file raises, and
\* nothing in between; a pass of run_legacy_ui over a package with an
\* unreadable preprocessor.pkl, ui_schema.json or model_info.json next to a
\* valid model.pkl reports "Failed to load model components" and renders no
\* form.
C24_AllOrNothing ==
    LegacyPass =>
        /\ load_legacy_components(Pkg) =
              IF Unloadable(Pkg) THEN NoComponents ELSE FileByFile(Pkg)
        /\ Unloadable(Pkg) =>
              /\ ComponentsFailed
              /\ NoForm
              /\ NoExecutor
              /\ ~Has("st.sidebar")
              /\ ~Has("st.subheader")
        /\ (~Unloadable(Pkg) /\ Pkg.model.file = "ok") => ~ComponentsFailed

C24_Witness ==
    /\ LegacyPass
    /\ Pkg.model.file = "ok"
    /\ Pkg.prep.file = "corrupt"
    /\ Pkg.schema.file = "ok"
    /\ ComponentsFailed
    /\ pass.exit = "returned"

====
